---- MODULE Spec2Model ----
(***************************************************************************)
(* CloudClawMac VM lifecycle orchestrator: the request handlers of         *)
(* routes/vms.js, the credit guard of middleware/auth.js, the background   *)
(* sweeps of services/background.js and the queries of models/db.js.       *)
(* Every `await` of a handler is one atomic step; handlers interleave at   *)
(* their awaits.  Each store query runs as its own implicit transaction    *)
(* (fastify.pg.query on the pool), so a row lock taken by a query is       *)
(* released when that query returns.                                       *)
(***************************************************************************)
EXTENDS Integers, Sequences, FiniteSets, TLC

VARIABLES
    now,          \* wall clock, in seconds
    tenants,      \* tenants table: tier, trial_credits, trial_ends_at
    vms,          \* vm_instances table, by id
    sessions,     \* vm_sessions table, by id (position)
    provisioning, \* VMs whose asynchronous provisionOrkaVM call is pending
    proc,         \* request handlers / sweep executions in flight
    nreq,         \* number of operations begun so far
    dAmount,      \* deduction experiment: amount A of every attempt
    dStart,       \* deduction experiment: starting balance B
    dLeft,        \* deduction experiment: attempts not yet issued
    dOk,          \* deduction experiment: attempts that returned a row
    dFail,        \* deduction experiment: attempts that returned no row
    issued,       \* history: per VM, the credential last handed out by issue
    got,          \* history: the answer of the last retrieve
    nIssued       \* number of credentials issued so far

vars == <<now, tenants, vms, sessions, provisioning, proc, nreq,
          dAmount, dStart, dLeft, dOk, dFail, issued, got, nIssued>>

cvars == <<issued, got, nIssued>>

dvars == <<dAmount, dStart, dLeft, dOk, dFail, cvars>>

-----------------------------------------------------------------------------
(* Bounds of the model *)

NumTenants == 1
MaxVMs == 2
MaxSessions == 2
MaxProcs == 2
MaxTicks == 2
MaxRequests == 4
MaxBalance == 6
MaxAmount == 3
MaxAttempts == 3
NumIsoTenants == 2
MaxIssues == 3
MaxRetrieves == 3
MaxCredTicks == 3
MaxExtensions == 2

(* Program constants *)

NULL == -1
ExpiryHours == 24
ExpirySeconds == ExpiryHours * 3600
TrialDurationDays == 1
TrialCredits == 500
CentsPerMinute == 14

\* the clock advances in steps of one expiry period
TickSeconds == ExpirySeconds

Tenants == 1..NumTenants
VmIds == 1..MaxVMs
Procs == 1..MaxProcs
Tiers == {"standard", "pro", "enterprise"}

-----------------------------------------------------------------------------
(* Store rows *)

\* the credential kept in a VM's metadata: none, or a secret and its expiry
NoCred == [secret |-> 0, expiresAt |-> NULL]

NoVm == [status |-> "none", tenant |-> 0, expiresAt |-> NULL,
         startedAt |-> NULL, stoppedAt |-> NULL, cred |-> NoCred,
         extensions |-> NULL]
DeletedVm == [NoVm EXCEPT !.status = "deleted"]

RowExists(v) == vms[v].status \notin {"none", "deleted"}

NoSession == [vm |-> 0, startedAt |-> NULL, endedAt |-> NULL,
              duration |-> NULL, cost |-> 0]

SessIds == 1..Len(sessions)

OpenSessions(v) == {s \in SessIds : sessions[s].vm = v /\ sessions[s].endedAt = NULL}

Idle == [pc |-> "idle", user |-> 0, t |-> 0, vm |-> 0, tier |-> "none",
         obs |-> "none", cands |-> {}, sid |-> 0, count |-> 0, resp |-> 0,
         err |-> "none", ret |-> {}]

Respond(p, code) == proc' = [proc EXCEPT ![p] = [Idle EXCEPT !.resp = code]]

\* reply.status(code).send({ error: err, ... })
RespondError(p, code, err) ==
    proc' = [proc EXCEPT ![p] = [Idle EXCEPT !.resp = code, !.err = err]]

Goto(p, label) == proc' = [proc EXCEPT ![p].pc = label]

InFlight(labels) == Cardinality({q \in Procs : proc[q].pc \in labels})

\* A request reaches its route (onRequest: authenticate, requireTenantAccess),
\* or a sweep execution is triggered (cron tick, runCleanup).
Arrive(p, first, t, v) ==
    /\ proc[p].pc = "idle"
    /\ nreq < MaxRequests
    /\ nreq' = nreq + 1
    /\ proc' = [proc EXCEPT ![p] = [Idle EXCEPT !.pc = first, !.t = t, !.vm = v]]
    /\ UNCHANGED <<now, tenants, vms, sessions, provisioning, dvars>>

-----------------------------------------------------------------------------
(* Credit / quota guard *)

HasTrialCreditsNonNegative(tn) == tn.credits >= 0

HasTrialCredits(tn) == tn.credits > 0

HasActiveSubscription(tn) == tn.tier \in {"pro", "enterprise"}

TrialIsActive(tn, time) == tn.trialEndsAt # NULL /\ tn.trialEndsAt > time

requireCredits(tn, time) ==
    ~(~HasTrialCredits(tn) /\ ~HasActiveSubscription(tn) /\ ~TrialIsActive(tn, time))

limits(tier) ==
    CASE tier = "standard" -> 1
      [] tier = "pro" -> 3
      [] tier = "enterprise" -> 10
      [] OTHER -> 1

vmCount(t) ==
    Cardinality({v \in VmIds : vms[v].tenant = t
                               /\ vms[v].status \in {"running", "provisioning"}})

-----------------------------------------------------------------------------
(* POST /  (create VM) *)

CreateLabels == {"c_guard", "c_count", "c_insert"}

Allocated == Cardinality({v \in VmIds : vms[v].status # "none"})

CreateArrive(p, t) ==
    /\ Allocated + InFlight(CreateLabels) < MaxVMs
    /\ Arrive(p, "c_guard", t, 0)

CreateGuard(p) ==
    /\ proc[p].pc = "c_guard"
    /\ IF requireCredits(tenants[proc[p].t], now)
         THEN proc' = [proc EXCEPT ![p].pc = "c_count",
                                   ![p].tier = tenants[proc[p].t].tier]
         ELSE Respond(p, 402)
    /\ UNCHANGED <<now, tenants, vms, sessions, provisioning, nreq, dvars>>

CreateCount(p) ==
    /\ proc[p].pc = "c_count"
    /\ IF vmCount(proc[p].t) >= limits(proc[p].tier)
         THEN Respond(p, 429)
         ELSE Goto(p, "c_insert")
    /\ UNCHANGED <<now, tenants, vms, sessions, provisioning, nreq, dvars>>

CreateInsert(p) ==
    /\ proc[p].pc = "c_insert"
    /\ LET v == CHOOSE x \in VmIds :
                  vms[x].status = "none" /\ \A y \in VmIds : vms[y].status = "none" => x <= y
       IN /\ vms' = [vms EXCEPT ![v] = [NoVm EXCEPT !.status = "provisioning",
                                                     !.tenant = proc[p].t,
                                                     !.expiresAt = now + ExpirySeconds]]
          /\ provisioning' = provisioning \cup {v}
    /\ Respond(p, 201)
    /\ UNCHANGED <<now, tenants, sessions, nreq, dvars>>

ProviderOutcomes == {"ok", "fail", "throw"}

provisionOrkaVM(v, outcome) ==
    /\ v \in provisioning
    /\ provisioning' = provisioning \ {v}
    /\ IF RowExists(v)
         THEN vms' = [vms EXCEPT ![v].status = IF outcome = "ok" THEN "ready" ELSE "failed"]
         ELSE UNCHANGED vms
    /\ UNCHANGED <<now, tenants, sessions, proc, nreq, dvars>>

-----------------------------------------------------------------------------
(* POST /:vmId/start *)

StartLabels == {"s_guard", "s_select", "s_orka", "s_update", "s_session"}

StartArrive(p, t, v) ==
    /\ Len(sessions) + InFlight(StartLabels) < MaxSessions
    /\ Arrive(p, "s_guard", t, v)

StartGuard(p) ==
    /\ proc[p].pc = "s_guard"
    /\ IF requireCredits(tenants[proc[p].t], now)
         THEN proc' = [proc EXCEPT ![p].pc = "s_select",
                                   ![p].tier = tenants[proc[p].t].tier]
         ELSE Respond(p, 402)
    /\ UNCHANGED <<now, tenants, vms, sessions, provisioning, nreq, dvars>>

VmFoundAnyTenant(v, t) == RowExists(v)

VmFound(v, t) == RowExists(v) /\ vms[v].tenant = t

StartBlocked(status) == status = "running"

StartSelect(p) ==
    /\ proc[p].pc = "s_select"
    /\ IF ~VmFound(proc[p].vm, proc[p].t)
         THEN Respond(p, 404)
         ELSE IF StartBlocked(vms[proc[p].vm].status)
                THEN Respond(p, 200)
                ELSE proc' = [proc EXCEPT ![p].pc = "s_orka",
                                          ![p].obs = vms[proc[p].vm].status]
    /\ UNCHANGED <<now, tenants, vms, sessions, provisioning, nreq, dvars>>

StartOrkaIgnoresResult(p, outcome) ==
    /\ proc[p].pc = "s_orka"
    /\ IF outcome = "throw" THEN Respond(p, 500) ELSE Goto(p, "s_update")
    /\ UNCHANGED <<now, tenants, vms, sessions, provisioning, nreq, dvars>>

StartOrka(p, outcome) ==
    /\ proc[p].pc = "s_orka"
    /\ CASE outcome = "ok" -> Goto(p, "s_update")
         [] outcome = "fail" -> RespondError(p, 500, "Failed to start VM")
         [] outcome = "throw" -> Respond(p, 500)
    /\ UNCHANGED <<now, tenants, vms, sessions, provisioning, nreq, dvars>>

\* the start also renews the expiry
StartUpdateRenews(p) ==
    /\ proc[p].pc = "s_update"
    /\ IF RowExists(proc[p].vm)
         THEN vms' = [vms EXCEPT ![proc[p].vm].status = "running",
                                 ![proc[p].vm].expiresAt = now + ExpirySeconds]
         ELSE UNCHANGED vms
    /\ Goto(p, "s_session")
    /\ UNCHANGED <<now, tenants, sessions, provisioning, nreq, dvars>>

StartUpdate(p) ==
    /\ proc[p].pc = "s_update"
    /\ IF RowExists(proc[p].vm)
         THEN vms' = [vms EXCEPT ![proc[p].vm].status = "running"]
         ELSE UNCHANGED vms
    /\ Goto(p, "s_session")
    /\ UNCHANGED <<now, tenants, sessions, provisioning, nreq, dvars>>

StartSession(p) ==
    /\ proc[p].pc = "s_session"
    /\ IF RowExists(proc[p].vm)
         THEN /\ sessions' = Append(sessions,
                     [NoSession EXCEPT !.vm = proc[p].vm, !.startedAt = now])
              /\ Respond(p, 200)
         ELSE /\ UNCHANGED sessions
              /\ Respond(p, 500)
    /\ UNCHANGED <<now, tenants, vms, provisioning, nreq, dvars>>

-----------------------------------------------------------------------------
(* Billing session close *)

CostCents(elapsed) == (elapsed * CentsPerMinute) \div 60

CloseStop(s, time) ==
    [s EXCEPT !.endedAt = time, !.cost = CostCents(time - s.startedAt)]

ExpiredCostCentsPerHour(elapsed) == (elapsed * 500) \div 3600

\* the cost expression of the expiry sweep
ExpiredCostCents(elapsed) == (elapsed * CentsPerMinute) \div 60

CloseExpired(s, time) ==
    [s EXCEPT !.endedAt = time, !.duration = time - s.startedAt,
              !.cost = ExpiredCostCents(time - s.startedAt)]

SessionExists(sid) == sid \in SessIds /\ sessions[sid].vm # 0

-----------------------------------------------------------------------------
(* POST /:vmId/stop *)

StopArrive(p, t, v) == Arrive(p, "p_select", t, v)

\* the stop route with the credit guard among its hooks
StopSelectGuarded(p) ==
    /\ proc[p].pc = "p_select"
    /\ IF ~requireCredits(tenants[proc[p].t], now)
         THEN Respond(p, 402)
         ELSE IF ~VmFound(proc[p].vm, proc[p].t)
                THEN Respond(p, 404)
                ELSE IF vms[proc[p].vm].status # "running"
                       THEN Respond(p, 200)
                       ELSE proc' = [proc EXCEPT ![p].pc = "p_orka",
                                                 ![p].obs = vms[proc[p].vm].status]
    /\ UNCHANGED <<now, tenants, vms, sessions, provisioning, nreq, dvars>>

StopSelect(p) ==
    /\ proc[p].pc = "p_select"
    /\ IF ~VmFound(proc[p].vm, proc[p].t)
         THEN Respond(p, 404)
         ELSE IF vms[proc[p].vm].status # "running"
                THEN Respond(p, 200)
                ELSE proc' = [proc EXCEPT ![p].pc = "p_orka",
                                          ![p].obs = vms[proc[p].vm].status]
    /\ UNCHANGED <<now, tenants, vms, sessions, provisioning, nreq, dvars>>

StopOrkaIgnoresResult(p, outcome) ==
    /\ proc[p].pc = "p_orka"
    /\ IF outcome = "throw" THEN Respond(p, 500) ELSE Goto(p, "p_update")
    /\ UNCHANGED <<now, tenants, vms, sessions, provisioning, nreq, dvars>>

StopOrka(p, outcome) ==
    /\ proc[p].pc = "p_orka"
    /\ CASE outcome = "ok" -> Goto(p, "p_update")
         [] outcome = "fail" -> RespondError(p, 500, "Failed to stop VM")
         [] outcome = "throw" -> Respond(p, 500)
    /\ UNCHANGED <<now, tenants, vms, sessions, provisioning, nreq, dvars>>

StopUpdate(p) ==
    /\ proc[p].pc = "p_update"
    /\ IF RowExists(proc[p].vm)
         THEN vms' = [vms EXCEPT ![proc[p].vm].status = "stopped"]
         ELSE UNCHANGED vms
    /\ Goto(p, "p_sess_select")
    /\ UNCHANGED <<now, tenants, sessions, provisioning, nreq, dvars>>

StopSessSelect(p) ==
    /\ proc[p].pc = "p_sess_select"
    /\ IF OpenSessions(proc[p].vm) = {}
         THEN Respond(p, 200)
         ELSE \E s \in OpenSessions(proc[p].vm) :
                  proc' = [proc EXCEPT ![p].pc = "p_sess_update", ![p].sid = s]
    /\ UNCHANGED <<now, tenants, vms, sessions, provisioning, nreq, dvars>>

\* closing the session also takes its cost off the tenant's balance
StopSessUpdateDeducts(p) ==
    /\ proc[p].pc = "p_sess_update"
    /\ IF SessionExists(proc[p].sid)
         THEN /\ sessions' = [sessions EXCEPT ![proc[p].sid] = CloseStop(@, now)]
              /\ tenants' = [tenants EXCEPT ![proc[p].t].credits =
                                 @ - CostCents(now - sessions[proc[p].sid].startedAt)]
         ELSE UNCHANGED <<sessions, tenants>>
    /\ Respond(p, 200)
    /\ UNCHANGED <<now, vms, provisioning, nreq, dvars>>

StopSessUpdate(p) ==
    /\ proc[p].pc = "p_sess_update"
    /\ IF SessionExists(proc[p].sid)
         THEN sessions' = [sessions EXCEPT ![proc[p].sid] = CloseStop(@, now)]
         ELSE UNCHANGED sessions
    /\ Respond(p, 200)
    /\ UNCHANGED <<now, tenants, vms, provisioning, nreq, dvars>>

-----------------------------------------------------------------------------
(* DELETE /:vmId *)

DeleteArrive(p, t, v) == Arrive(p, "d_select", t, v)

DeleteSelect(p) ==
    /\ proc[p].pc = "d_select"
    /\ IF ~VmFound(proc[p].vm, proc[p].t)
         THEN Respond(p, 404)
         ELSE proc' = [proc EXCEPT ![p].pc = "d_orka",
                                   ![p].obs = vms[proc[p].vm].status]
    /\ UNCHANGED <<now, tenants, vms, sessions, provisioning, nreq, dvars>>

DeleteOrka(p, outcome) ==
    /\ proc[p].pc = "d_orka"
    /\ IF outcome = "throw" THEN Respond(p, 500) ELSE Goto(p, "d_delete")
    /\ UNCHANGED <<now, tenants, vms, sessions, provisioning, nreq, dvars>>

\* the delete leaves the VM's session rows in place
DeleteRowKeepsSessions(p) ==
    /\ proc[p].pc = "d_delete"
    /\ IF VmFound(proc[p].vm, proc[p].t)
         THEN vms' = [vms EXCEPT ![proc[p].vm] = DeletedVm]
         ELSE UNCHANGED vms
    /\ Respond(p, 200)
    /\ UNCHANGED <<now, tenants, sessions, provisioning, nreq, dvars>>

DeleteRow(p) ==
    /\ proc[p].pc = "d_delete"
    /\ IF VmFound(proc[p].vm, proc[p].t)
         THEN /\ vms' = [vms EXCEPT ![proc[p].vm] = DeletedVm]
              /\ sessions' = [s \in SessIds |->
                     IF sessions[s].vm = proc[p].vm THEN NoSession ELSE sessions[s]]
         ELSE UNCHANGED <<vms, sessions>>
    /\ Respond(p, 200)
    /\ UNCHANGED <<now, tenants, provisioning, nreq, dvars>>

-----------------------------------------------------------------------------
(* stopExpiredVMs: the expiry sweep (cron every 5 minutes, runCleanup) *)

findExpired(time) ==
    {v \in VmIds : vms[v].status = "running" /\ vms[v].expiresAt < time}

\* the for-loop head: take the next row, or return the result
NextRow(p, first, count) ==
    IF proc[p].cands = {}
      THEN proc' = [proc EXCEPT ![p] = [Idle EXCEPT !.resp = 200, !.count = count]]
      ELSE \E v \in proc[p].cands :
               proc' = [proc EXCEPT ![p] =
                   [Idle EXCEPT !.pc = first, !.vm = v, !.count = count,
                                !.obs = "running",
                                !.cands = proc[p].cands \ {v}]]

SweepArrive(p) == Arrive(p, "w_find", 0, 0)

SweepFind(p) ==
    /\ proc[p].pc = "w_find"
    /\ IF findExpired(now) = {}
         THEN Respond(p, 200)
         ELSE \E v \in findExpired(now) :
                  proc' = [proc EXCEPT ![p] =
                      [Idle EXCEPT !.pc = "w_orka", !.vm = v, !.obs = "running",
                                   !.cands = findExpired(now) \ {v}]]
    /\ UNCHANGED <<now, tenants, vms, sessions, provisioning, nreq, dvars>>

\* a thrown provider error ends the whole run
SweepOrkaAborts(p, outcome) ==
    /\ proc[p].pc = "w_orka"
    /\ IF outcome = "throw"
         THEN proc' = [proc EXCEPT ![p] = [Idle EXCEPT !.resp = 200]]
         ELSE Goto(p, "w_update")
    /\ UNCHANGED <<now, tenants, vms, sessions, provisioning, nreq, dvars>>

SweepOrka(p, outcome) ==
    /\ proc[p].pc = "w_orka"
    /\ IF outcome = "throw"
         THEN NextRow(p, "w_orka", proc[p].count)
         ELSE Goto(p, "w_update")
    /\ UNCHANGED <<now, tenants, vms, sessions, provisioning, nreq, dvars>>

SweepUpdate(p) ==
    /\ proc[p].pc = "w_update"
    /\ IF RowExists(proc[p].vm)
         THEN vms' = [vms EXCEPT ![proc[p].vm].status = "expired",
                                 ![proc[p].vm].stoppedAt = now]
         ELSE UNCHANGED vms
    /\ Goto(p, "w_sess_select")
    /\ UNCHANGED <<now, tenants, sessions, provisioning, nreq, dvars>>

SweepSessSelect(p) ==
    /\ proc[p].pc = "w_sess_select"
    /\ IF OpenSessions(proc[p].vm) = {}
         THEN NextRow(p, "w_orka", proc[p].count + 1)
         ELSE \E s \in OpenSessions(proc[p].vm) :
                  proc' = [proc EXCEPT ![p].pc = "w_sess_update", ![p].sid = s]
    /\ UNCHANGED <<now, tenants, vms, sessions, provisioning, nreq, dvars>>

SweepSessUpdate(p) ==
    /\ proc[p].pc = "w_sess_update"
    /\ IF SessionExists(proc[p].sid)
         THEN sessions' = [sessions EXCEPT ![proc[p].sid] = CloseExpired(@, now)]
         ELSE UNCHANGED sessions
    /\ NextRow(p, "w_orka", proc[p].count + 1)
    /\ UNCHANGED <<now, tenants, vms, provisioning, nreq, dvars>>

-----------------------------------------------------------------------------
(* syncVMState: the drift sync (cron every hour) *)

\* getVMStatus: the provider reports running, reports another status, answers
\* not found, cannot be reached (request returns ok: false for both), or
\* authenticate throws before the request is made
StatusOutcomes == {"running", "notrunning", "notfound", "unreachable", "throw"}

SyncCandidates == {v \in VmIds : vms[v].status \in {"running", "starting"}}

SyncArrive(p) == Arrive(p, "y_find", 0, 0)

SyncFind(p) ==
    /\ proc[p].pc = "y_find"
    /\ IF SyncCandidates = {}
         THEN Respond(p, 200)
         ELSE \E v \in SyncCandidates :
                  proc' = [proc EXCEPT ![p] =
                      [Idle EXCEPT !.pc = "y_orka", !.vm = v, !.obs = vms[v].status,
                                   !.cands = SyncCandidates \ {v}]]
    /\ UNCHANGED <<now, tenants, vms, sessions, provisioning, nreq, dvars>>

SyncOrka(p, outcome) ==
    /\ proc[p].pc = "y_orka"
    /\ IF outcome = "running"
         THEN NextRow(p, "y_orka", proc[p].count)
         ELSE Goto(p, IF outcome = "throw" THEN "y_unknown" ELSE "y_stopped")
    /\ UNCHANGED <<now, tenants, vms, sessions, provisioning, nreq, dvars>>

SyncUpdate(p) ==
    /\ proc[p].pc \in {"y_stopped", "y_unknown"}
    /\ IF RowExists(proc[p].vm)
         THEN vms' = [vms EXCEPT ![proc[p].vm].status =
                         IF proc[p].pc = "y_unknown" THEN "unknown" ELSE "stopped"]
         ELSE UNCHANGED vms
    /\ NextRow(p, "y_orka", proc[p].count + 1)
    /\ UNCHANGED <<now, tenants, sessions, provisioning, nreq, dvars>>

-----------------------------------------------------------------------------
(* PATCH /:tenantId/tier *)

updateTier(t, tier) ==
    /\ nreq < MaxRequests
    /\ nreq' = nreq + 1
    /\ tenants' = [tenants EXCEPT ![t].tier = tier]
    /\ UNCHANGED <<now, vms, sessions, provisioning, proc, dvars>>

-----------------------------------------------------------------------------
Tick ==
    /\ now < MaxTicks * TickSeconds
    /\ now' = now + TickSeconds
    /\ UNCHANGED <<tenants, vms, sessions, provisioning, proc, nreq, dvars>>

\* no credential has been issued or asked for yet
NoIssue == [secret |-> 0, at |-> NULL, live |-> FALSE]

NoCredentials ==
    /\ issued = [v \in VmIds |-> NoIssue]
    /\ got = [vm |-> 0, secret |-> 0, n |-> 0]
    /\ nIssued = 0

InitTenant(credits) ==
    [tier |-> "standard", credits |-> credits,
     trialEndsAt |-> TrialDurationDays * 24 * 3600]

Init ==
    /\ now = 0
    /\ tenants \in [Tenants -> {InitTenant(c) : c \in {0, TrialCredits}}]
    /\ vms = [v \in VmIds |-> NoVm]
    /\ sessions = <<>>
    /\ provisioning = {}
    /\ proc = [p \in Procs |-> Idle]
    /\ nreq = 0
    /\ dAmount = 0 /\ dStart = 0 /\ dLeft = 0 /\ dOk = 0 /\ dFail = 0
    /\ NoCredentials

Next ==
    \/ \E p \in Procs, t \in Tenants : CreateArrive(p, t)
    \/ \E p \in Procs : CreateGuard(p)
    \/ \E p \in Procs : CreateCount(p)
    \/ \E p \in Procs : CreateInsert(p)
    \/ \E v \in VmIds, o \in ProviderOutcomes : provisionOrkaVM(v, o)
    \/ \E p \in Procs, t \in Tenants, v \in VmIds : StartArrive(p, t, v)
    \/ \E p \in Procs : StartGuard(p)
    \/ \E p \in Procs : StartSelect(p)
    \/ \E p \in Procs, o \in ProviderOutcomes : StartOrka(p, o)
    \/ \E p \in Procs : StartUpdate(p)
    \/ \E p \in Procs : StartSession(p)
    \/ \E p \in Procs, t \in Tenants, v \in VmIds : StopArrive(p, t, v)
    \/ \E p \in Procs : StopSelect(p)
    \/ \E p \in Procs, o \in ProviderOutcomes : StopOrka(p, o)
    \/ \E p \in Procs : StopUpdate(p)
    \/ \E p \in Procs : StopSessSelect(p)
    \/ \E p \in Procs : StopSessUpdate(p)
    \/ \E p \in Procs, t \in Tenants, v \in VmIds : DeleteArrive(p, t, v)
    \/ \E p \in Procs : DeleteSelect(p)
    \/ \E p \in Procs, o \in ProviderOutcomes : DeleteOrka(p, o)
    \/ \E p \in Procs : DeleteRow(p)
    \/ \E p \in Procs : SweepArrive(p)
    \/ \E p \in Procs : SweepFind(p)
    \/ \E p \in Procs, o \in ProviderOutcomes : SweepOrka(p, o)
    \/ \E p \in Procs : SweepUpdate(p)
    \/ \E p \in Procs : SweepSessSelect(p)
    \/ \E p \in Procs : SweepSessUpdate(p)
    \/ \E p \in Procs : SyncArrive(p)
    \/ \E p \in Procs : SyncFind(p)
    \/ \E p \in Procs, o \in StatusOutcomes : SyncOrka(p, o)
    \/ \E p \in Procs : SyncUpdate(p)
    \/ \E t \in Tenants, tier \in Tiers : updateTier(t, tier)
    \/ Tick

Spec == Init /\ [][Next]_vars

-----------------------------------------------------------------------------
(* tenantQueries.deductCredits: M concurrent attempts of one amount.  Each  *)
(* attempt is a single UPDATE statement, so it is one atomic step.          *)

DeductTenant == CHOOSE t \in Tenants : \A u \in Tenants : t <= u

deductCreditsWhereStrict(tn, amount) == tn.credits > amount

deductCreditsWhere(tn, amount) == tn.credits >= amount

deductCredits(t, amount) ==
    /\ dLeft > 0
    /\ dLeft' = dLeft - 1
    /\ IF deductCreditsWhere(tenants[t], amount)
         THEN /\ tenants' = [tenants EXCEPT ![t].credits = @ - amount]
              /\ dOk' = dOk + 1
              /\ dFail' = dFail
         ELSE /\ tenants' = tenants
              /\ dOk' = dOk
              /\ dFail' = dFail + 1
    /\ UNCHANGED <<now, vms, sessions, provisioning, proc, nreq, dAmount, dStart,
                   cvars>>

InitDeduct ==
    /\ now = 0
    /\ \E b \in 0..MaxBalance :
          /\ tenants = [t \in Tenants |->
                           InitTenant(IF t = DeductTenant THEN b ELSE TrialCredits)]
          /\ dStart = b
    /\ dAmount \in 1..MaxAmount
    /\ dLeft \in 0..MaxAttempts
    /\ dOk = 0 /\ dFail = 0
    /\ vms = [v \in VmIds |-> NoVm]
    /\ sessions = <<>>
    /\ provisioning = {}
    /\ proc = [p \in Procs |-> Idle]
    /\ nreq = 0
    /\ NoCredentials

NextDeduct == deductCredits(DeductTenant, dAmount)

SpecDeduct == InitDeduct /\ [][NextDeduct]_vars

-----------------------------------------------------------------------------
(* Claims *)

Active(t, statuses) == {v \in VmIds : vms[v].tenant = t /\ vms[v].status \in statuses}

\* C1: for every tenant, the number of its VMs with status provisioning or
\* running never exceeds the limit of its tier (standard 1, pro 3,
\* enterprise 10), whatever the interleaving of creates and starts.
C1_RunningProvisioningWithinLimit ==
    \A t \in Tenants :
        Cardinality(Active(t, {"provisioning", "running"})) <= limits(tenants[t].tier)

\* C2: every VM has at most one open billing session (ended_at null).
C2_AtMostOneOpenSession ==
    \A v \in VmIds : Cardinality(OpenSessions(v)) <= 1

\* C3: once a billing session is closed, no later step changes its end time,
\* duration or cost (the row may only disappear with its VM).
Closed(s) == sessions[s].vm # 0 /\ sessions[s].endedAt # NULL

C3_ClosedSessionImmutable ==
    [][\A s \in SessIds :
          (Closed(s) /\ sessions'[s].vm # 0) => sessions'[s] = sessions[s]]_vars

\* C4: with starting balance B and M attempts of amount A, the balance is never
\* negative, every attempt either succeeds and lowers the balance by exactly A
\* or fails and leaves it unchanged, and when all attempts are done the number
\* of successes is floor(B/A) if M >= floor(B/A), and M otherwise.
Min(a, b) == IF a <= b THEN a ELSE b

C4_Balance == tenants[DeductTenant].credits

C4_DeductState ==
    /\ C4_Balance >= 0
    /\ C4_Balance = dStart - dOk * dAmount
    /\ dLeft = 0 => dOk = Min(dOk + dFail, dStart \div dAmount)

C4_DeductStep ==
    dLeft' # dLeft =>
        \/ dOk' = dOk + 1 /\ dFail' = dFail /\ C4_Balance' = C4_Balance - dAmount
        \/ dOk' = dOk /\ dFail' = dFail + 1 /\ C4_Balance' = C4_Balance

C4_ConcurrentDeductions == [](C4_DeductState) /\ [][C4_DeductStep]_vars

C4_Witness == dLeft = 0 /\ dOk >= 2 /\ dFail >= 1 /\ C4_Balance > 0

\* C5: an overdue VM is claimed by one expiry-sweep execution at a time: no
\* two sweep executions hold the same VM among the rows they selected.
SweepLabels == {"w_orka", "w_update", "w_sess_select", "w_sess_update"}

Claimed(p) ==
    IF proc[p].pc \in SweepLabels THEN {proc[p].vm} \cup proc[p].cands ELSE {}

C5_ClaimedByOneSweep ==
    \A p, q \in Procs : p # q => Claimed(p) \cap Claimed(q) = {}

\* C6: a status write changes a VM's status only from the status its writer
\* observed; a write by a handler that read the status before a concurrent
\* transition committed is rejected.
WriteLabels == {"s_update", "p_update", "w_update", "y_stopped", "y_unknown"}

C6_StaleWriteRejected ==
    [][/\ \A p \in Procs :
            (proc[p].pc \in WriteLabels /\ proc'[p] # proc[p]
               /\ vms'[proc[p].vm].status # vms[proc[p].vm].status)
            => vms[proc[p].vm].status = proc[p].obs
       /\ \A v \in provisioning :
            (v \notin provisioning' /\ vms'[v].status # vms[v].status)
            => vms[v].status = "provisioning"]_vars

\* C7: every change of a VM's status follows provisioning->ready,
\* ready->running, running->stopped, stopped->running, running->expired,
\* running->unknown or any->failed, and failed and expired are final.
Transitions ==
    {<<"provisioning", "ready">>, <<"ready", "running">>, <<"running", "stopped">>,
     <<"stopped", "running">>, <<"running", "expired">>, <<"running", "unknown">>}
    \cup {<<st, "failed">> : st \in {"provisioning", "ready", "running", "stopped", "unknown"}}

C7_TransitionRelation ==
    [][\A v \in VmIds :
          (RowExists(v) /\ vms'[v].status # "deleted" /\ vms'[v].status # vms[v].status)
          => <<vms[v].status, vms'[v].status>> \in Transitions]_vars

\* C8: a start on a VM whose status is neither ready nor stopped is rejected
\* when the handler reads the VM: no provider start call follows, and the VM
\* and the billing sessions are unchanged.
C8_StartOnlyFromReadyOrStopped ==
    [][\A p \in Procs :
          (proc[p].pc = "s_select" /\ proc'[p] # proc[p]
             /\ VmFound(proc[p].vm, proc[p].t)
             /\ vms[proc[p].vm].status \notin {"ready", "stopped"})
          => (proc'[p].pc = "idle" /\ vms' = vms /\ sessions' = sessions)]_vars

\* C9: for every tenant, the number of its VMs with status provisioning, ready
\* or running never exceeds the limit of its tier.
C9_ActiveWithinLimit ==
    \A t \in Tenants :
        Cardinality(Active(t, {"provisioning", "ready", "running"}))
            <= limits(tenants[t].tier)

\* C10: the credit guard of create and start admits the request iff the
\* tenant's balance is > 0, or its tier is pro or enterprise, or its trial end
\* is in the future; otherwise it answers 402 (never 429) and changes no
\* tenant, VM or session.
Eligible(t) ==
    \/ tenants[t].credits > 0
    \/ tenants[t].tier = "pro"
    \/ tenants[t].tier = "enterprise"
    \/ (tenants[t].trialEndsAt # NULL /\ now < tenants[t].trialEndsAt)

GuardLabels == {"c_guard", "s_guard"}

C11_ZeroCreditsCreateRejected ==
    [][\A p \in Procs :
          (proc[p].pc = "c_guard" /\ proc'[p] # proc[p]
             /\ tenants[proc[p].t].credits = 0)
          => (proc'[p].pc = "idle" /\ proc'[p].resp = 402 /\ vms' = vms)]_vars

\* C12: an expiry sweep selects exactly the VMs whose status is running and
\* whose expires_at is at or before the time of the sweep (a VM whose
\* expires_at equals now is selected, one whose expires_at is later is not).
DueAtOrBefore(time) ==
    {v \in VmIds : vms[v].status = "running" /\ vms[v].expiresAt <= time}

C12_SweepSelectsAtOrBefore ==
    [][\A p \in Procs :
          (proc[p].pc = "w_find" /\ proc'[p] # proc[p]) =>
              (IF proc'[p].pc = "w_orka"
                 THEN {proc'[p].vm} \cup proc'[p].cands
                 ELSE {}) = DueAtOrBefore(now)]_vars

-----------------------------------------------------------------------------
(* The expiry sweep under its cron schedule: creates, starts and the clock   *)
(* as in Spec, a provider whose stop call succeeds, a sweep execution        *)
(* triggered again and again, and every handler running on to its end.       *)

SweepCron(p) ==
    /\ proc[p].pc = "idle"
    /\ proc' = [proc EXCEPT ![p] = [Idle EXCEPT !.pc = "w_find"]]
    /\ UNCHANGED <<now, tenants, vms, sessions, provisioning, nreq, dvars>>

ExpiryStep(p) ==
    \/ CreateGuard(p) \/ CreateCount(p) \/ CreateInsert(p)
    \/ StartGuard(p) \/ StartSelect(p)
    \/ \E o \in ProviderOutcomes : StartOrka(p, o)
    \/ StartUpdate(p) \/ StartSession(p)
    \/ SweepFind(p) \/ SweepOrka(p, "ok") \/ SweepUpdate(p)
    \/ SweepSessSelect(p) \/ SweepSessUpdate(p)

NextExpiry ==
    \/ \E p \in Procs, t \in Tenants : CreateArrive(p, t)
    \/ \E v \in VmIds, o \in ProviderOutcomes : provisionOrkaVM(v, o)
    \/ \E p \in Procs, t \in Tenants, v \in VmIds : StartArrive(p, t, v)
    \/ \E p \in Procs : SweepCron(p)
    \/ \E p \in Procs : ExpiryStep(p)
    \/ Tick

FairExpiry ==
    /\ \A p \in Procs : WF_vars(ExpiryStep(p))
    /\ WF_vars(\E p \in Procs : SweepCron(p))

SpecExpiry == Init /\ [][NextExpiry]_vars /\ FairExpiry

\* C13: with the expiry sweep scheduled fairly and a provider whose stop call
\* succeeds, a VM that is running with expires_at in the past eventually has
\* status expired and no open billing session, unless something other than
\* the sweep takes it out of running first.
C13_OverdueEventuallyExpired ==
    \A v \in VmIds :
        (vms[v].status = "running" /\ vms[v].expiresAt < now)
            ~> \/ vms[v].status \notin {"running", "expired"}
               \/ (vms[v].status = "expired" /\ OpenSessions(v) = {})

\* C14: when the drift sync asks the provider about a running VM and the
\* provider cannot be reached or answers not found, the sync goes on to write
\* status unknown - not stopped - and that write leaves every billing session
\* as it was.
C14_SyncUnreachableOrMissingUnknown ==
    [][\A p \in Procs :
          /\ \A o \in {"notfound", "unreachable"} :
                (proc[p].obs = "running" /\ SyncOrka(p, o)) => proc'[p].pc = "y_unknown"
          /\ (proc[p].pc = "y_unknown" /\ proc'[p] # proc[p] /\ RowExists(proc[p].vm))
                => (vms'[proc[p].vm].status = "unknown" /\ sessions' = sessions)]_vars

-----------------------------------------------------------------------------
(* Ephemeral credential issuer (services/ssh.js) and GET /:vmId/connect *)

CredentialTTL == 300

\* the secret is random: every issue hands out a value never handed out before
issueCred(secret, time) == [secret |-> secret, expiresAt |-> time + CredentialTTL]

CredExpiredNever(c, time) == FALSE

CredExpired(c, time) == time > c.expiresAt

consumedKeeps(c) == c

consumed(c) == NoCred

ConnectLabels == {"k_select", "k_issue"}

\* the connect route without its status check
ConnectSelectAnyStatus(p) ==
    /\ proc[p].pc = "k_select"
    /\ IF ~VmFound(proc[p].vm, proc[p].t)
         THEN Respond(p, 404)
         ELSE Goto(p, "k_issue")
    /\ UNCHANGED <<now, tenants, vms, sessions, provisioning, nreq, dvars>>

ConnectSelect(p) ==
    /\ proc[p].pc = "k_select"
    /\ IF ~VmFound(proc[p].vm, proc[p].t)
         THEN Respond(p, 404)
         ELSE IF vms[proc[p].vm].status # "running"
                THEN Respond(p, 400)
                ELSE Goto(p, "k_issue")
    /\ UNCHANGED <<now, tenants, vms, sessions, provisioning, nreq, dvars>>

\* generateConnectionCredentials(pg, vmId): issue, then the 200 answer
ConnectIssue(p) ==
    /\ proc[p].pc = "k_issue"
    /\ nIssued' = nIssued + 1
    /\ IF RowExists(proc[p].vm)
         THEN /\ vms' = [vms EXCEPT ![proc[p].vm].cred = issueCred(nIssued + 1, now)]
              /\ issued' = [issued EXCEPT ![proc[p].vm] =
                               [secret |-> nIssued + 1, at |-> now, live |-> TRUE]]
         ELSE UNCHANGED <<vms, issued>>
    /\ proc' = [proc EXCEPT ![p] = [Idle EXCEPT !.resp = 200, !.ret = {proc[p].vm}]]
    /\ UNCHANGED <<now, tenants, sessions, provisioning, nreq,
                   dAmount, dStart, dLeft, dOk, dFail, got>>

\* retrieve(vmId): one read-and-delete of the VM's stored credential
retrieve(v) ==
    /\ got.n < MaxRetrieves
    /\ LET c == vms[v].cred
           found == RowExists(v) /\ c # NoCred
           secret == IF found /\ ~CredExpired(c, now) THEN c.secret ELSE 0
       IN /\ got' = [vm |-> v, secret |-> secret, n |-> got.n + 1]
          /\ vms' = IF found THEN [vms EXCEPT ![v].cred = consumed(c)] ELSE vms
          /\ issued' = IF secret # 0 THEN [issued EXCEPT ![v].live = FALSE] ELSE issued
    /\ UNCHANGED <<now, tenants, sessions, provisioning, proc, nreq,
                   dAmount, dStart, dLeft, dOk, dFail, nIssued>>

-----------------------------------------------------------------------------
(* Tenant isolation: several users, each with the tenant it registered,     *)
(* send VM requests naming any tenant and any VM.                            *)

IsoTenants == 1..NumIsoTenants

\* tenants.user_id: user u owns the tenant created at its registration
tenantUserId(t) == t

AccessLabels == {"a_list", "a_get", "a_start", "a_stop", "a_delete", "a_connect"}

RouteEntry(label) ==
    CASE label = "a_list" -> "l_select"
      [] label = "a_get" -> "g_select"
      [] label = "a_start" -> "s_guard"
      [] label = "a_stop" -> "p_select"
      [] label = "a_delete" -> "d_select"
      [] label = "a_connect" -> "k_select"

\* onRequest: authenticate has accepted the token of user u
authenticate(p, u, t, v, route) ==
    /\ proc[p].pc = "idle"
    /\ nreq < MaxRequests
    /\ route = "a_start" =>
           Len(sessions) + InFlight(StartLabels \cup {"a_start"}) < MaxSessions
    /\ route = "a_connect" =>
           nIssued + InFlight(ConnectLabels \cup {"a_connect"}) < MaxIssues
    /\ nreq' = nreq + 1
    /\ proc' = [proc EXCEPT ![p] =
                   [Idle EXCEPT !.pc = route, !.user = u, !.t = t, !.vm = v]]
    /\ UNCHANGED <<now, tenants, vms, sessions, provisioning, dvars>>

requireTenantAccess(p) ==
    /\ proc[p].pc \in AccessLabels
    /\ IF tenantUserId(proc[p].t) = proc[p].user
         THEN Goto(p, RouteEntry(proc[p].pc))
         ELSE Respond(p, 403)
    /\ UNCHANGED <<now, tenants, vms, sessions, provisioning, nreq, dvars>>

\* GET /  (list)
ListSelect(p) ==
    /\ proc[p].pc = "l_select"
    /\ proc' = [proc EXCEPT ![p] =
                   [Idle EXCEPT !.resp = 200,
                                !.ret = {v \in VmIds : VmFound(v, proc[p].t)}]]
    /\ UNCHANGED <<now, tenants, vms, sessions, provisioning, nreq, dvars>>

\* GET /:vmId
GetSelect(p) ==
    /\ proc[p].pc = "g_select"
    /\ IF ~VmFound(proc[p].vm, proc[p].t)
         THEN Respond(p, 404)
         ELSE proc' = [proc EXCEPT ![p] =
                          [Idle EXCEPT !.resp = 200, !.ret = {proc[p].vm}]]
    /\ UNCHANGED <<now, tenants, vms, sessions, provisioning, nreq, dvars>>

IsoOwner(v) == ((v - 1) % NumIsoTenants) + 1

\* one open session per running VM, in the order of the VM ids
OpenAtStart(R) ==
    [i \in 1..Cardinality(R) |->
        [NoSession EXCEPT !.vm = CHOOSE v \in R : Cardinality({w \in R : w < v}) = i - 1,
                          !.startedAt = 0]]

InitIso ==
    /\ now = 0
    /\ tenants = [t \in IsoTenants |-> InitTenant(TrialCredits)]
    /\ \E R \in SUBSET VmIds :
          /\ vms = [v \in VmIds |->
                       [NoVm EXCEPT !.status = IF v \in R THEN "running" ELSE "ready",
                                    !.tenant = IsoOwner(v),
                                    !.expiresAt = ExpirySeconds]]
          /\ sessions = OpenAtStart(R)
    /\ provisioning = {}
    /\ proc = [p \in Procs |-> Idle]
    /\ nreq = 0
    /\ dAmount = 0 /\ dStart = 0 /\ dLeft = 0 /\ dOk = 0 /\ dFail = 0
    /\ NoCredentials

NextIso ==
    \/ \E p \in Procs, u \in IsoTenants, t \in IsoTenants, v \in VmIds,
          route \in AccessLabels : authenticate(p, u, t, v, route)
    \/ \E p \in Procs : requireTenantAccess(p)
    \/ \E p \in Procs : ListSelect(p)
    \/ \E p \in Procs : GetSelect(p)
    \/ \E p \in Procs : StartGuard(p)
    \/ \E p \in Procs : StartSelect(p)
    \/ \E p \in Procs, o \in ProviderOutcomes : StartOrka(p, o)
    \/ \E p \in Procs : StartUpdate(p)
    \/ \E p \in Procs : StartSession(p)
    \/ \E p \in Procs : StopSelect(p)
    \/ \E p \in Procs, o \in ProviderOutcomes : StopOrka(p, o)
    \/ \E p \in Procs : StopUpdate(p)
    \/ \E p \in Procs : StopSessSelect(p)
    \/ \E p \in Procs : StopSessUpdate(p)
    \/ \E p \in Procs : DeleteSelect(p)
    \/ \E p \in Procs, o \in ProviderOutcomes : DeleteOrka(p, o)
    \/ \E p \in Procs : DeleteRow(p)
    \/ \E p \in Procs : ConnectSelect(p)
    \/ \E p \in Procs : ConnectIssue(p)

SpecIso == InitIso /\ [][NextIso]_vars

\* C15: a VM operation (list, get, start, stop, delete, connect) issued under
\* tenant T runs its handler only for a user who owns T, never changes a VM, a
\* credential or a billing session of another tenant and never returns another
\* tenant's VM; a request naming a tenant its user does not own is answered
\* 403 and changes nothing.
Foreign(v, t) == RowExists(v) /\ vms[v].tenant # t

C15_OwnerOnly ==
    \A p \in Procs :
        proc[p].pc \notin AccessLabels \cup {"idle"}
            => tenantUserId(proc[p].t) = proc[p].user

C15_Step ==
    \A p \in Procs :
        (proc[p].pc # "idle" /\ proc'[p] # proc[p]) =>
            /\ \A v \in VmIds : Foreign(v, proc[p].t) => vms'[v] = vms[v]
            /\ \A s \in SessIds :
                  (sessions[s].vm # 0 /\ Foreign(sessions[s].vm, proc[p].t))
                      => sessions'[s] = sessions[s]
            /\ \A s \in DOMAIN sessions' \ SessIds :
                  ~Foreign(sessions'[s].vm, proc[p].t)
            /\ \A v \in proc'[p].ret : ~Foreign(v, proc[p].t)
            /\ (proc[p].pc \in AccessLabels /\ tenantUserId(proc[p].t) # proc[p].user)
                  => /\ proc'[p].pc = "idle" /\ proc'[p].resp = 403
                     /\ <<tenants, vms, sessions, provisioning, cvars>>' =
                            <<tenants, vms, sessions, provisioning, cvars>>

C15_TenantIsolation == [](C15_OwnerOnly) /\ [][C15_Step]_vars

\* reached: one request was refused with 403, an owner has deleted its VM and
\* closed nothing of the other tenant, whose VM is still there
C15_Witness ==
    /\ \E p \in Procs : proc[p].pc = "idle" /\ proc[p].resp = 403
    /\ \E v, w \in VmIds : vms[v].status = "deleted" /\ RowExists(w)
    /\ \E p \in Procs : proc[p].ret # {}

-----------------------------------------------------------------------------
(* tenantQueries.getUsageStats *)

\* vm_instances LEFT JOIN vm_sessions for one tenant: a row per session of
\* each VM, and a row with a null session for a VM that has none
JoinRows(t) ==
    {<<v, s>> \in VmIds \X SessIds : VmFound(v, t) /\ sessions[s].vm = v}
    \cup {<<v, 0>> : v \in {w \in VmIds : VmFound(w, t) /\ \A s \in SessIds : sessions[s].vm # w}}

\* SUM over a column of the joined rows skips nulls
Column(row, col) ==
    IF row[2] = 0 \/ sessions[row[2]][col] = NULL THEN 0 ELSE sessions[row[2]][col]

RECURSIVE SumColumn(_, _)
SumColumn(rows, col) ==
    IF rows = {} THEN 0
    ELSE LET r == CHOOSE x \in rows : TRUE
         IN Column(r, col) + SumColumn(rows \ {r}, col)

getUsageStats(t) ==
    [total_vms |-> Cardinality(JoinRows(t)),
     running_vms |-> Cardinality({r \in JoinRows(t) : vms[r[1]].status = "running"}),
     total_seconds |-> SumColumn(JoinRows(t), "duration"),
     total_cost_cents |-> SumColumn(JoinRows(t), "cost")]

\* C16: the usage stats of a tenant report the number of its VMs, the number
\* of them that are running, the summed durations (end - start) of its closed
\* billing sessions and their summed costs, for any number of sessions per VM
\* and whichever path closed them.
ClosedOf(t) ==
    {s \in SessIds : sessions[s].vm # 0 /\ VmFound(sessions[s].vm, t)
                     /\ sessions[s].endedAt # NULL}

RECURSIVE SumClosed(_, _)
SumClosed(S, cost) ==
    IF S = {} THEN 0
    ELSE LET s == CHOOSE x \in S : TRUE
         IN (IF cost THEN sessions[s].cost ELSE sessions[s].endedAt - sessions[s].startedAt)
            + SumClosed(S \ {s}, cost)

C16_UsageStats ==
    \A t \in Tenants :
        getUsageStats(t) =
            [total_vms |-> Cardinality({v \in VmIds : VmFound(v, t)}),
             running_vms |-> Cardinality({v \in VmIds : VmFound(v, t)
                                                        /\ vms[v].status = "running"}),
             total_seconds |-> SumClosed(ClosedOf(t), FALSE),
             total_cost_cents |-> SumClosed(ClosedOf(t), TRUE)]

-----------------------------------------------------------------------------
(* The credential issuer alone: running VMs, connect requests, retrieves and *)
(* a clock that moves in half TTLs.                                          *)

CredTickSeconds == CredentialTTL \div 2

ConnectArrive(p, t, v) ==
    /\ nIssued + InFlight(ConnectLabels) < MaxIssues
    /\ Arrive(p, "k_select", t, v)

CredTick ==
    /\ now < MaxCredTicks * CredTickSeconds
    /\ now' = now + CredTickSeconds
    /\ UNCHANGED <<tenants, vms, sessions, provisioning, proc, nreq, dvars>>

InitCred ==
    /\ now = 0
    /\ tenants = [t \in Tenants |-> [InitTenant(TrialCredits) EXCEPT !.tier = "pro"]]
    /\ vms = [v \in VmIds |->
                 [NoVm EXCEPT !.status = "running",
                              !.tenant = CHOOSE t \in Tenants : TRUE,
                              !.expiresAt = ExpirySeconds]]
    /\ sessions = OpenAtStart(VmIds)
    /\ provisioning = {}
    /\ proc = [p \in Procs |-> Idle]
    /\ nreq = 0
    /\ dAmount = 0 /\ dStart = 0 /\ dLeft = 0 /\ dOk = 0 /\ dFail = 0
    /\ NoCredentials

NextCred ==
    \/ \E p \in Procs, t \in Tenants, v \in VmIds : ConnectArrive(p, t, v)
    \/ \E p \in Procs : ConnectSelect(p)
    \/ \E p \in Procs : ConnectIssue(p)
    \/ \E v \in VmIds : retrieve(v)
    \/ CredTick

SpecCred == InitCred /\ [][NextCred]_vars

\* C17: after issue(vmId), the first retrieve(vmId) within the 5-minute TTL
\* returns exactly the secret issued and removes it; every other retrieve
\* (a later one, or one after the TTL) returns not found, so no credential
\* is returned twice.
C17_Step ==
    got'.n # got.n =>
        IF issued[got'.vm].live /\ now <= issued[got'.vm].at + CredentialTTL
          THEN got'.secret = issued[got'.vm].secret /\ vms'[got'.vm].cred = NoCred
          ELSE got'.secret = 0

C17_IssueRetrieveOnce == [][C17_Step]_vars

\* reached: a VM's credential was retrieved once, and the latest retrieve,
\* on the same VM and still within the TTL, got not found
C17_Witness ==
    /\ got.n >= 2 /\ got.vm # 0 /\ got.secret = 0
    /\ issued[got.vm].secret # 0 /\ ~issued[got.vm].live
    /\ now <= issued[got.vm].at + CredentialTTL

\* C18: retrieve never returns a credential whose expiry (issuance time + 5
\* minutes) has passed - it deletes it and answers not found - and issue
\* overwrites the prior credential, so the one credential a VM holds is the
\* one issued last.
C18_Stored ==
    \A v \in VmIds :
        vms[v].cred # NoCred =>
            /\ vms[v].cred.secret = issued[v].secret
            /\ vms[v].cred.expiresAt = issued[v].at + CredentialTTL

C18_Step ==
    /\ got'.n # got.n =>
          /\ got'.secret # 0 =>
                (vms[got'.vm].cred.secret = got'.secret
                   /\ now <= vms[got'.vm].cred.expiresAt)
          /\ (vms[got'.vm].cred # NoCred /\ now > vms[got'.vm].cred.expiresAt) =>
                (got'.secret = 0 /\ vms'[got'.vm].cred = NoCred)
    /\ nIssued' # nIssued =>
          \A v \in VmIds :
              vms'[v].cred # vms[v].cred =>
                  vms'[v].cred = [secret |-> nIssued', expiresAt |-> now + CredentialTTL]

C18_NoExpiredOneLive == [](C18_Stored) /\ [][C18_Step]_vars

\* reached: a second credential replaced the first on a VM, its TTL passed,
\* and a retrieve found it, removed it and answered not found
C18_Witness ==
    /\ got.vm # 0 /\ got.secret = 0
    /\ issued[got.vm].live /\ issued[got.vm].secret >= 2
    /\ now > issued[got.vm].at + CredentialTTL
    /\ vms[got.vm].cred = NoCred

\* C19: when the provider's start call fails - it returns a non-success
\* result or throws - the start request ends there with a 500 answer: no VM
\* status is written, no billing session is opened, and the handler makes no
\* further call.
C19_StartProviderFailure ==
    [][\A p \in Procs : \A o \in {"fail", "throw"} :
          StartOrka(p, o) =>
              /\ proc'[p].pc = "idle" /\ proc'[p].resp = 500
              /\ vms' = vms /\ sessions' = sessions]_vars

\* reached: a start was answered "Failed to start VM" while its VM exists,
\* is not running and has no billing session
C19_Witness ==
    \E p \in Procs :
        /\ proc[p].pc = "idle" /\ proc[p].resp = 500
        /\ proc[p].err = "Failed to start VM"
        /\ \E v \in VmIds : vms[v].status \in {"ready", "stopped"} /\ OpenSessions(v) = {}

\* C20: a successful start writes status running and sets the VM's start time
\* to the current time if it was unset, leaving it unchanged if it was set;
\* it then opens exactly one new billing session for the VM and answers 200.
C20_StartSuccess ==
    [][\A p \in Procs :
          /\ (proc[p].pc = "s_update" /\ proc'[p] # proc[p] /\ RowExists(proc[p].vm)) =>
                /\ vms'[proc[p].vm].status = "running"
                /\ vms'[proc[p].vm].startedAt =
                       (IF vms[proc[p].vm].startedAt = NULL
                          THEN now ELSE vms[proc[p].vm].startedAt)
          /\ (proc[p].pc = "s_session" /\ proc'[p].pc = "idle" /\ proc'[p].resp = 200) =>
                /\ Len(sessions') = Len(sessions) + 1
                /\ sessions'[Len(sessions')].vm = proc[p].vm
                /\ sessions'[Len(sessions')].endedAt = NULL
                /\ \A s \in SessIds : sessions'[s] = sessions[s]]_vars

\* C21: when the provider's stop call fails during an explicit stop - a
\* non-success result or a thrown error - the request ends with a 500 answer:
\* no VM status is written (the VM stays running) and no billing session is
\* touched (it stays open, no cost recorded).
C21_StopProviderFailure ==
    [][\A p \in Procs : \A o \in {"fail", "throw"} :
          StopOrka(p, o) =>
              /\ proc'[p].pc = "idle" /\ proc'[p].resp = 500
              /\ vms' = vms /\ sessions' = sessions]_vars

\* reached: a stop was answered "Failed to stop VM" and a VM is still running
\* with its billing session open and without cost
C21_Witness ==
    \E p \in Procs :
        /\ proc[p].pc = "idle" /\ proc[p].resp = 500
        /\ proc[p].err = "Failed to stop VM"
        /\ \E v \in VmIds :
              /\ vms[v].status = "running"
              /\ \E s \in OpenSessions(v) : sessions[s].cost = 0

\* C22: a successful explicit stop writes status stopped and records the stop
\* time, and closes the VM's open billing session with end time and duration
\* in seconds set (and a cost); a stop on a VM that is not running changes
\* nothing.
C22_StopSuccess ==
    [][\A p \in Procs :
          /\ (proc[p].pc = "p_update" /\ proc'[p] # proc[p] /\ RowExists(proc[p].vm)) =>
                /\ vms'[proc[p].vm].status = "stopped"
                /\ vms'[proc[p].vm].stoppedAt = now
          /\ (proc[p].pc = "p_sess_update" /\ proc'[p] # proc[p]
                /\ SessionExists(proc[p].sid) /\ sessions[proc[p].sid].endedAt = NULL) =>
                /\ sessions'[proc[p].sid].endedAt = now
                /\ sessions'[proc[p].sid].duration = now - sessions[proc[p].sid].startedAt
                /\ sessions'[proc[p].sid].cost # NULL
          /\ (proc[p].pc = "p_select" /\ proc'[p] # proc[p]
                /\ VmFound(proc[p].vm, proc[p].t) /\ vms[proc[p].vm].status # "running") =>
                (proc'[p].pc = "idle" /\ vms' = vms /\ sessions' = sessions)]_vars

-----------------------------------------------------------------------------
(* config.pricing: cents per hour of each tier *)

pricing(tier) ==
    CASE tier = "standard" -> 500
      [] tier = "pro" -> 1000
      [] tier = "enterprise" -> 2000

\* C23: the cost stored when a billing session is closed, by the explicit
\* stop or by the expiry sweep, is floor(elapsed seconds * R / 3600), R being
\* the cents-per-hour rate of the tier of the tenant that owns the VM.
ClosingLabels == {"p_sess_update", "w_sess_update"}

C23_TierRateCost ==
    [][\A p \in Procs :
          (proc[p].pc \in ClosingLabels /\ proc'[p] # proc[p]
             /\ SessionExists(proc[p].sid) /\ sessions[proc[p].sid].endedAt = NULL
             /\ RowExists(sessions[proc[p].sid].vm)) =>
              sessions'[proc[p].sid].cost =
                  ((now - sessions[proc[p].sid].startedAt)
                     * pricing(tenants[vms[sessions[proc[p].sid].vm].tenant].tier)) \div 3600]_vars

-----------------------------------------------------------------------------
(* Closing sessions along both paths: running VMs with open sessions, stop   *)
(* requests, the expiry sweep and the drift sync under their cron triggers,  *)
(* and the clock.                                                            *)

SyncCron(p) ==
    /\ proc[p].pc = "idle"
    /\ proc' = [proc EXCEPT ![p] = [Idle EXCEPT !.pc = "y_find"]]
    /\ UNCHANGED <<now, tenants, vms, sessions, provisioning, nreq, dvars>>

NextClose ==
    \/ \E p \in Procs, t \in IsoTenants, v \in VmIds : StopArrive(p, t, v)
    \/ \E p \in Procs : StopSelect(p)
    \/ \E p \in Procs, o \in ProviderOutcomes : StopOrka(p, o)
    \/ \E p \in Procs : StopUpdate(p)
    \/ \E p \in Procs : StopSessSelect(p)
    \/ \E p \in Procs : StopSessUpdate(p)
    \/ \E p \in Procs : SweepCron(p)
    \/ \E p \in Procs : SweepFind(p)
    \/ \E p \in Procs, o \in ProviderOutcomes : SweepOrka(p, o)
    \/ \E p \in Procs : SweepUpdate(p)
    \/ \E p \in Procs : SweepSessSelect(p)
    \/ \E p \in Procs : SweepSessUpdate(p)
    \/ \E p \in Procs : SyncCron(p)
    \/ \E p \in Procs : SyncFind(p)
    \/ \E p \in Procs, o \in StatusOutcomes : SyncOrka(p, o)
    \/ \E p \in Procs : SyncUpdate(p)
    \/ Tick

SpecClose == InitIso /\ [][NextClose]_vars

\* C24: two closed billing sessions with the same elapsed duration carry the
\* same cost, whether the explicit stop or the expiry sweep closed them.
Elapsed(s) == sessions[s].endedAt - sessions[s].startedAt

C24_SameCostBothPaths ==
    \A s1, s2 \in SessIds :
        (Closed(s1) /\ Closed(s2) /\ Elapsed(s1) = Elapsed(s2))
            => sessions[s1].cost = sessions[s2].cost

\* reached: one session closed by the stop route (no duration column) and one
\* closed by the sweep (duration column set), same elapsed time, cost > 0
C24_Witness ==
    \E s1, s2 \in SessIds :
        /\ Closed(s1) /\ Closed(s2)
        /\ sessions[s1].duration = NULL /\ sessions[s2].duration # NULL
        /\ Elapsed(s1) = Elapsed(s2) /\ sessions[s1].cost > 0

\* C25: when the provider's stop call fails for a VM the expiry sweep has
\* selected - a non-success result or a thrown error - the sweep leaves that
\* VM alone: it goes on to its next row (or returns) without writing a status
\* or closing a session, and does not count the VM as stopped.
C25_SweepProviderFailure ==
    [][\A p \in Procs : \A o \in {"fail", "throw"} :
          SweepOrka(p, o) =>
              /\ proc'[p].pc \in {"w_orka", "idle"}
              /\ proc'[p].count = proc[p].count
              /\ vms' = vms /\ sessions' = sessions]_vars

\* C26: a delete of a VM that is still in provisioning is rejected when the
\* handler reads the VM, and no step removes the record of a VM whose status
\* is provisioning; a delete of a VM in any other status is accepted.
C26_NoDeleteWhileProvisioning ==
    [][/\ \A p \in Procs :
            (proc[p].pc = "d_select" /\ proc'[p] # proc[p]
               /\ VmFound(proc[p].vm, proc[p].t)) =>
                IF vms[proc[p].vm].status = "provisioning"
                  THEN proc'[p].pc = "idle" /\ proc'[p].resp # 200 /\ vms' = vms
                  ELSE proc'[p].pc = "d_orka"
       /\ \A v \in VmIds :
            vms[v].status = "provisioning" => vms'[v].status # "deleted"]_vars

\* C27: a delete of an existing VM removes its record whatever the provider
\* answers to the implicit stop and to the delete - success, a non-success
\* result, or a thrown error: after the provider step the handler always goes
\* on to the row delete, and the row delete removes the record.
C27_DeleteWhateverProvider ==
    [][\A p \in Procs :
          /\ \A o \in ProviderOutcomes :
                DeleteOrka(p, o) => proc'[p].pc = "d_delete"
          /\ (proc[p].pc = "d_delete" /\ proc'[p] # proc[p]
                /\ VmFound(proc[p].vm, proc[p].t)) =>
                vms'[proc[p].vm].status = "deleted"]_vars

\* C28: a VM leaves provisioning only through the return of its provider
\* create call, which moves it to ready (success) or failed (failure or
\* thrown error); that return finds the VM still in provisioning, happens
\* once per VM, and no VM is handed to the provider create again.
Returned(v) == v \in provisioning /\ v \notin provisioning'

C28_ProvisionedOnce ==
    [][\A v \in VmIds :
          /\ (vms[v].status = "provisioning"
                /\ vms'[v].status \notin {"provisioning", "deleted"}) =>
                (Returned(v) /\ vms'[v].status \in {"ready", "failed"})
          /\ (Returned(v) /\ RowExists(v)) =>
                (vms[v].status = "provisioning" /\ vms'[v].status \in {"ready", "failed"})
          /\ (v \in provisioning' /\ v \notin provisioning) => vms[v].status = "none"]_vars

\* C29: when the drift sync writes stopped for a VM the provider reports as
\* not running, the VM's open billing session is closed with it (end time and
\* cost set): once the sync has moved on from that VM, a VM it left in
\* stopped has no open session.
C29_SyncStoppedClosesSession ==
    [][\A p \in Procs :
          (proc[p].pc = "y_stopped" /\ proc'[p] # proc[p] /\ RowExists(proc[p].vm)) =>
              /\ vms'[proc[p].vm].status = "stopped"
              /\ \A s \in SessIds :
                    sessions[s].vm = proc[p].vm =>
                        (sessions'[s].endedAt # NULL /\ sessions'[s].cost # NULL)]_vars

\* C30: in the expiry sweep and in the drift sync, whatever the provider
\* answers for one selected VM - success, a non-success result or a thrown
\* error - the run keeps its remaining rows: each step stays on the current
\* row or moves to one of the rows still waiting, and the run returns
\* (normally, answer 200) only when no row is left.
RunLabels == SweepLabels \cup {"y_orka", "y_stopped", "y_unknown"}

C30_FailureIsolation ==
    [][\A p \in Procs :
          (proc[p].pc \in RunLabels /\ proc'[p] # proc[p]) =>
              \/ /\ proc'[p].pc \in RunLabels
                 /\ proc'[p].vm = proc[p].vm /\ proc'[p].cands = proc[p].cands
              \/ /\ proc'[p].pc \in {"w_orka", "y_orka"}
                 /\ proc'[p].vm \in proc[p].cands
                 /\ proc'[p].cands = proc[p].cands \ {proc'[p].vm}
              \/ /\ proc'[p].pc = "idle" /\ proc'[p].resp = 200
                 /\ proc[p].cands = {}]_vars

\* reached: a sweep whose provider call threw for its first VM (still running
\* and overdue, not counted) is at the provider call of its second VM, while
\* a sync whose provider call threw for its first VM (now unknown) is at the
\* provider call of its second
C30_Witness ==
    \E p, q \in Procs :
        /\ proc[p].pc = "w_orka" /\ proc[p].cands = {} /\ proc[p].count = 0
        /\ \E v \in findExpired(now) : v # proc[p].vm
        /\ proc[q].pc = "y_orka" /\ proc[q].cands = {} /\ proc[q].count = 1
        /\ \E v \in VmIds : v # proc[q].vm /\ vms[v].status = "unknown"

\* C31: the count a sweep returns is the number of VMs whose state that run
\* changed: the drift sync raises its count only in a step that changes the
\* VM's row, and every status write of the expiry sweep (each is followed by
\* one increment of the count) changes the VM's row; a run that finds no
\* candidate returns count 0 and no error marker.
C31_CountIsChangedVMs ==
    [][\A p \in Procs :
          /\ (proc[p].pc \in {"y_stopped", "y_unknown"}
                /\ proc'[p].count > proc[p].count)
             => vms'[proc[p].vm] # vms[proc[p].vm]
          /\ (proc[p].pc = "w_update" /\ proc'[p] # proc[p])
             => vms'[proc[p].vm] # vms[proc[p].vm]
          /\ (proc[p].pc \in {"w_find", "y_find"} /\ proc'[p].pc = "idle")
             => (proc'[p].count = 0 /\ proc'[p].err = "none")]_vars

\* C32: a start request that reads one of the tenant's VMs (not already
\* running) while the tenant's count of provisioning or running VMs is at the
\* limit of its tier is answered with the quota signal (429): no provider call
\* follows and nothing is changed.
C32_StartSubjectToQuota ==
    [][\A p \in Procs :
          (proc[p].pc = "s_select" /\ proc'[p] # proc[p]
             /\ VmFound(proc[p].vm, proc[p].t)
             /\ vms[proc[p].vm].status # "running"
             /\ vmCount(proc[p].t) >= limits(tenants[proc[p].t].tier))
          => /\ proc'[p].pc = "idle" /\ proc'[p].resp = 429
             /\ vms' = vms /\ sessions' = sessions]_vars

\* C33: no provider client call made by a handler or a sweep (startVM, stopVM,
\* deleteVM, getVMStatus) ever throws to its caller: every outcome, a failed
\* provider authentication included, comes back as a tagged value.
C33_ProviderClientNeverThrows ==
    [][\A p \in Procs :
          /\ ~StartOrka(p, "throw")
          /\ ~StopOrka(p, "throw")
          /\ ~DeleteOrka(p, "throw")
          /\ ~SweepOrka(p, "throw")
          /\ ~SyncOrka(p, "throw")]_vars

-----------------------------------------------------------------------------
(* vmQueries.extendExpiry: the extend statement, run on VMs in every status  *)
(* the handlers and sweeps write, as the clock advances.                      *)

\* the values of vm_instances.status written by the routes and the sweeps
Statuses == {"provisioning", "ready", "running", "stopped", "failed", "expired",
             "unknown"}

\* COALESCE((metadata->>'extensions')::int, 0)
extensionsOf(row) == IF row.extensions = NULL THEN 0 ELSE row.extensions

\* WHERE id = $1 AND tenant_id = $2
extendExpiryWhere(t, v) == VmFound(v, t)

extendExpiry(t, v) ==
    /\ extendExpiryWhere(t, v)
    /\ extensionsOf(vms[v]) < MaxExtensions
    /\ vms' = [vms EXCEPT ![v].expiresAt = now + ExpirySeconds,
                          ![v].extensions = extensionsOf(vms[v]) + 1]
    /\ UNCHANGED <<now, tenants, sessions, provisioning, proc, nreq, dvars>>

InitExtend ==
    /\ now = 0
    /\ tenants = [t \in Tenants |-> InitTenant(TrialCredits)]
    /\ \E st \in [VmIds -> Statuses] :
          vms = [v \in VmIds |->
                    [NoVm EXCEPT !.status = st[v],
                                 !.tenant = CHOOSE t \in Tenants : TRUE,
                                 !.expiresAt = ExpirySeconds]]
    /\ sessions = <<>>
    /\ provisioning = {}
    /\ proc = [p \in Procs |-> Idle]
    /\ nreq = 0
    /\ dAmount = 0 /\ dStart = 0 /\ dLeft = 0 /\ dOk = 0 /\ dFail = 0
    /\ NoCredentials

NextExtend ==
    \/ \E t \in Tenants, v \in VmIds : extendExpiry(t, v)
    \/ Tick

SpecExtend == InitExtend /\ [][NextExtend]_vars

C35_BalanceUntouched ==
    [][\A t \in Tenants : tenants'[t].credits = tenants[t].credits]_vars

\* reached: a session closed with a positive cost while its tenant still has
\* the full trial credits
C35_Witness ==
    \E s \in SessIds :
        /\ Closed(s) /\ sessions[s].cost > 0
        /\ tenants[vms[sessions[s].vm].tenant].credits = TrialCredits

\* C36: expires_at is written at creation only, as now+24h: no step of start,
\* stop, provisioning or a sweep changes it on an existing row; hence the
\* expiry sweep's selection contains every running VM created more than 24
\* hours ago, whenever it was started.
C36_ExpiryFixedAtCreation ==
    [][/\ \A v \in VmIds :
            /\ (RowExists(v) /\ vms'[v].status # "deleted")
               => vms'[v].expiresAt = vms[v].expiresAt
            /\ (vms[v].status = "none" /\ vms'[v].status # "none")
               => vms'[v].expiresAt = now + ExpirySeconds
       /\ \A p \in Procs :
            (proc[p].pc = "w_find" /\ proc'[p] # proc[p]) =>
                \A v \in VmIds :
                    (vms[v].status = "running" /\ vms[v].expiresAt < now)
                    => (proc'[p].pc = "w_orka"
                        /\ v \in {proc'[p].vm} \cup proc'[p].cands)]_vars

\* reached: the sweep has selected a VM that was started when it was already
\* overdue
C36_Witness ==
    \E p \in Procs :
        /\ proc[p].pc = "w_orka"
        /\ \E s \in OpenSessions(proc[p].vm) :
              sessions[s].startedAt >= vms[proc[p].vm].expiresAt

\* C37: the delete of a VM removes every billing session row of that VM, open
\* or closed, as it is (no end time or cost is written first) and leaves the
\* other sessions alone, so the tenant's usage totals after the delete are the
\* sums over the sessions of its other VMs.
C37_DeleteCascadesSessions ==
    [][\A p \in Procs :
          (proc[p].pc = "d_delete" /\ proc'[p] # proc[p]
             /\ VmFound(proc[p].vm, proc[p].t)) =>
              LET v == proc[p].vm
                  t == proc[p].t
                  others == {r \in JoinRows(t) : r[1] # v}
              IN /\ \A s \in SessIds :
                        sessions'[s] = IF sessions[s].vm = v THEN NoSession
                                                             ELSE sessions[s]
                 /\ getUsageStats(t)'.total_seconds = SumColumn(others, "duration")
                 /\ getUsageStats(t)'.total_cost_cents = SumColumn(others, "cost")]_vars

\* reached: a VM is deleted, its session rows are gone and time has passed
\* since they were opened
C37_Witness ==
    /\ \E v \in VmIds : vms[v].status = "deleted"
    /\ \E s \in SessIds : sessions[s] = NoSession
    /\ now > 0

\* C38: the stop and delete handlers of a tenant that fails the credit guard
\* (no credit, standard tier, trial over) are never answered 402: a stop that
\* reads its running VM goes on to the provider call and, when that call
\* succeeds, writes status stopped; a delete that reads its VM goes on to the
\* provider call and, when that call does not throw, removes the row.
C38_StopDeleteUnguarded ==
    [][\A p \in Procs :
          (proc[p].pc \in {"p_select", "p_orka", "p_update", "d_select", "d_orka",
                           "d_delete"}
             /\ proc'[p] # proc[p] /\ proc[p].t \in Tenants
             /\ ~requireCredits(tenants[proc[p].t], now)) =>
              LET v == proc[p].vm
                  found == VmFound(v, proc[p].t)
              IN /\ proc'[p].resp # 402
                 /\ (proc[p].pc = "p_select" /\ found /\ vms[v].status = "running")
                    => proc'[p].pc = "p_orka"
                 /\ StopOrka(p, "ok") => proc'[p].pc = "p_update"
                 /\ (proc[p].pc = "p_update" /\ RowExists(v))
                    => vms'[v].status = "stopped"
                 /\ (proc[p].pc = "d_select" /\ found) => proc'[p].pc = "d_orka"
                 /\ DeleteOrka(p, "ok") => proc'[p].pc = "d_delete"
                 /\ (proc[p].pc = "d_delete" /\ found)
                    => vms'[v].status = "deleted"]_vars

\* reached: a VM of a tenant without credit, on the standard tier, was stopped
\* by a stop request at or after the end of the trial
C38_Witness ==
    \E s \in SessIds :
        /\ Closed(s) /\ sessions[s].duration = NULL
        /\ vms[sessions[s].vm].status = "stopped"
        /\ LET tn == tenants[vms[sessions[s].vm].tenant]
           IN /\ ~requireCredits(tn, sessions[s].endedAt)
              /\ ~requireCredits(tn, now)

\* C39: a connect that reads its VM in a status other than running is
\* answered 400 and issues nothing; a connect that was accepted and issues on
\* an existing row answers 200 and stores for that VM a credential whose
\* secret was never handed out before, valid for the credential lifetime.
C39_ConnectOnlyRunning ==
    [][\A p \in Procs :
          /\ (proc[p].pc = "k_select" /\ proc'[p] # proc[p]
                /\ VmFound(proc[p].vm, proc[p].t)
                /\ vms[proc[p].vm].status # "running")
             => /\ proc'[p].pc = "idle" /\ proc'[p].resp = 400
                /\ vms' = vms /\ nIssued' = nIssued /\ issued' = issued
          /\ (proc[p].pc = "k_select" /\ proc'[p].pc = "k_issue")
             => vms[proc[p].vm].status = "running"
          /\ (proc[p].pc = "k_issue" /\ proc'[p] # proc[p] /\ RowExists(proc[p].vm))
             => /\ proc'[p].resp = 200
                /\ vms'[proc[p].vm].cred.secret \notin 0..nIssued
                /\ \A v \in VmIds : vms'[proc[p].vm].cred.secret # vms[v].cred.secret
                /\ vms'[proc[p].vm].cred.expiresAt = now + CredentialTTL
                /\ \A v \in VmIds \ {proc[p].vm} : vms'[v] = vms[v]]_vars

\* reached: one connect was answered 400, and a VM holds the credential an
\* accepted connect issued for it
C39_Witness ==
    /\ \E p \in Procs : proc[p].pc = "idle" /\ proc[p].resp = 400
    /\ \E v \in VmIds :
          /\ issued[v].live /\ vms[v].cred.secret = issued[v].secret
          /\ vms[v].cred.secret # 0
====
